---- MODULE Spec2Model ----
(***************************************************************************)
(* A model of slag (src/slag/__init__.py): render_all walks the configured *)
(* repository paths, extracts one Post per commit (find_posts), builds the *)
(* name -> posts mapping and the combined feed, paginates every feed       *)
(* (render_pages / pager) and writes one permalink document per post.      *)
(* magic, the paragraph classifier used by find_posts, is modelled on      *)
(* paragraphs that are sequences of one-character strings.                 *)
(***************************************************************************)
EXTENDS Integers, Sequences, FiniteSets, TLC

VARIABLES paths, page_size, repo_at, pc, err, k, links, repos, all_posts,
          renders, perma, mpath, para, mpc, mres

vars == <<paths, page_size, repo_at, pc, err, k, links, repos, all_posts,
          renders, perma, mpath, para, mpc, mres>>

runvars == <<paths, page_size, repo_at, pc, err, k, links, repos, all_posts,
             renders, perma>>

magicvars == <<mpath, para, mpc, mres>>

----------------------------------------------------------------------------
(* Bounds of the model. *)

MaxPaths == 2

MaxPosts == 2

MaxPageSize == 2

----------------------------------------------------------------------------
(* Small helpers on sequences. *)

Range(s) == {s[i] : i \in 1..Len(s)}

Last(s) == s[Len(s)]

RECURSIVE Concat(_)
Concat(ss) == IF ss = <<>> THEN <<>> ELSE Head(ss) \o Concat(Tail(ss))

SeqsUpTo(S, n) == UNION {[1..m -> S] : m \in 0..n}

Injective(s) == \A i, j \in 1..Len(s) : s[i] = s[j] => i = j

Count(s, x) == Cardinality({i \in 1..Len(s) : s[i] = x})

----------------------------------------------------------------------------
(* Python integer arithmetic: // floors, % takes the sign of the divisor.  *)
(* Both are used with a non-zero divisor only; a zero divisor raises       *)
(* ZeroDivisionError, which the callers model explicitly.                  *)

PyFloorDiv(a, b) == IF b > 0 THEN a \div b ELSE (0 - a) \div (0 - b)

PyMod(a, b) == a - b * PyFloorDiv(a, b)

----------------------------------------------------------------------------
(* The world outside the program: paths and the repositories behind them.  *)

Cwd == <<"x">>

AbsP(segs) == [abs |-> TRUE, segs |-> segs]

RelP(segs) == [abs |-> FALSE, segs |-> segs]

PathSet == {AbsP(<<"x", "a">>), AbsP(<<"y", "a">>), RelP(<<"a", "index">>)}

abspath(p) == IF p.abs THEN p.segs ELSE Cwd \o p.segs

basename(segs) == IF segs = <<>> THEN "" ELSE Last(segs)

RepoName(p) == basename(abspath(p))

(* The directories that can hold a repository.  git.discover_repository    *)
(* looks for one at the path and then at each directory above it.          *)
Roots == {<<"x", "a">>, <<"y", "a">>}

IsPrefix(r, segs) == Len(r) <= Len(segs) /\ SubSeq(segs, 1, Len(r)) = r

discover_repository(p) ==
  CHOOSE r \in Roots :
    /\ IsPrefix(r, abspath(p))
    /\ \A q \in Roots : IsPrefix(q, abspath(p)) => Len(q) <= Len(r)

(* The commits of the world: two of them share a commit time. *)
Hashes == {"h1", "h2", "h3"}

HashNo(h) == CASE h = "h1" -> 1 [] h = "h2" -> 2 [] h = "h3" -> 3

CommitTime(h) == (HashNo(h) + 1) \div 2

Commit(h) == [hex |-> h, commit_time |-> CommitTime(h),
              message |-> <<"title " \o h>>]

(* What git.Repository / repo.head / repo.walk give for a path: no         *)
(* repository, a repository without a resolvable head, or the commits      *)
(* reachable from head in the order the walk delivers them.  The order is  *)
(* left open: a time-sorted walk of a history whose commit times are not   *)
(* monotone, or that holds equal commit times, fixes no order by time and  *)
(* commit identifier.                                                      *)
Walks == {w \in SeqsUpTo(Hashes, MaxPosts) : w # <<>> /\ Injective(w)}

RepoStates == {[kind |-> "RepositoryNotFound", walk |-> <<>>],
               [kind |-> "HeadUnresolvable", walk |-> <<>>]}
              \cup {[kind |-> "ok", walk |-> w] : w \in Walks}

NoRepo == [kind |-> "RepositoryNotFound", walk |-> <<>>]

----------------------------------------------------------------------------
(* pager: cut a sequence into pages; a page is yielded whenever            *)
(* (i + 1) % page_size = 0, and the page under construction is yielded     *)
(* once more after the loop, whatever it holds.                            *)

RECURSIVE pagerLoop(_, _, _, _)
pagerLoop(items, i, page, S) ==
  IF i >= Len(items) THEN <<page>>
  ELSE LET page1 == Append(page, items[i + 1])
       IN IF PyMod(i + 1, S) = 0
          THEN <<page1>> \o pagerLoop(items, i + 1, <<>>, S)
          ELSE pagerLoop(items, i + 1, page1, S)

(* pager without the yield after the loop. *)
pagerNoFinalYield(iterable, S) ==
  LET pgs == pagerLoop(iterable, 0, <<>>, S) IN SubSeq(pgs, 1, Len(pgs) - 1)

pager(iterable, S) == pagerLoop(iterable, 0, <<>>, S)

----------------------------------------------------------------------------
(* find_posts: one Post per commit of the walk, in walk order.  The title  *)
(* is the first paragraph of the message; author and body are carried      *)
(* along by the program and play no part in aggregation or pagination.     *)

Post(p, h) == [repo |-> RepoName(p), title |-> Commit(h).message[1],
               time |-> Commit(h).commit_time, hash |-> Commit(h).hex]

find_posts(p, repo) == [i \in 1..Len(repo.walk) |-> Post(p, repo.walk[i])]

Link(title, href) == [title |-> title, href |-> href]

(* repos[name] = posts on a dict: a new key is appended, an existing key   *)
(* keeps its position and takes the new value.                             *)
(* repos.setdefault(name, posts): an existing key keeps its value. *)
DictSetDefault(d, name, posts) ==
  IF \E i \in 1..Len(d) : d[i].name = name
  THEN d
  ELSE Append(d, [name |-> name, posts |-> posts])

DictSet(d, name, posts) ==
  IF \E i \in 1..Len(d) : d[i].name = name
  THEN [i \in 1..Len(d) |->
          IF d[i].name = name THEN [name |-> name, posts |-> posts] ELSE d[i]]
  ELSE Append(d, [name |-> name, posts |-> posts])

(* all_posts.sort(key=time, reverse=True): a stable sort, posts with equal *)
(* times keep the order they had in the list.                              *)
InsertByTime(sorted, x) ==
  LET n == Cardinality({i \in 1..Len(sorted) : sorted[i].time >= x.time})
  IN SubSeq(sorted, 1, n) \o <<x>> \o SubSeq(sorted, n + 1, Len(sorted))

RECURSIVE SortFrom(_, _)
SortFrom(sorted, rest) ==
  IF rest = <<>> THEN sorted
  ELSE SortFrom(InsertByTime(sorted, Head(rest)), Tail(rest))

(* The sort left out: the list stays in extraction order. *)
SortSkipped(posts) == posts

SortByTimeDesc(posts) == SortFrom(<<>>, posts)

----------------------------------------------------------------------------
(* The naming functions of the two pagination call sites.                  *)

RepoFilename(name, i) ==
  IF i = 0 THEN name \o ".html" ELSE name \o "-" \o ToString(i + 1) \o ".html"

RepoHref(name, i) ==
  IF i = 0 THEN name \o ".html" ELSE name \o "-" \o ToString(i + 1) \o ".html"

RepoTitle(name, i) ==
  IF i = 0 THEN "/" \o name ELSE "/" \o name \o " #" \o ToString(i + 1)

IndexFilename(i) == IF i = 0 THEN "index.html" ELSE "page-" \o ToString(i + 1) \o ".html"

IndexHref(i) == IF i = 0 THEN "" ELSE "page-" \o ToString(i + 1) \o ".html"

IndexTitle(i) == IF i = 0 THEN "/" ELSE "/ #" \o ToString(i + 1)

(* range(n) as the sequence 0, 1, ..., n - 1 (empty when n <= 0). *)
PyRange(n) == [j \in 1..n |-> j - 1]

(* The naming functions of a call are passed as functions on the page      *)
(* indexes the call can use: the pager yields at most Len(posts) + 1       *)
(* pages and the page-link range holds at most Len(posts) + 1 indexes.     *)
PageIndexes(posts) == 0..(Len(posts) + 1)

(* render_pages for a non-zero page size: the page-link list, then one     *)
(* written document per page the pager yields.                             *)
PageLinks(posts, S, href_fn) ==
  LET r == PyRange(PyFloorDiv(Len(posts) + (S - 1), S))
  IN [j \in 1..Len(r) |-> Link(ToString(r[j] + 1), href_fn[r[j]])]

render_pages(posts, S, filename_fn, href_fn, title_fn) ==
  LET pages == PageLinks(posts, S, href_fn)
      pgs == pager(posts, S)
  IN [posts |-> posts,
      pages |-> pages,
      docs |-> [j \in 1..Len(pgs) |->
                  [filename |-> filename_fn[j - 1],
                   title |-> title_fn[j - 1],
                   pages |-> pages,
                   posts |-> pgs[j],
                   current_page |-> href_fn[j - 1]]]]

PermalinkDoc(post) ==
  [filename |-> post.hash \o ".html", title |-> post.title, posts |-> <<post>>]

----------------------------------------------------------------------------
(* render_all, one action per loop iteration or call.                      *)

(* The repository find_posts opens for a path. *)
RepoOf(p) == repo_at[discover_repository(p)]

Terminated == pc \in {"done", "raised"}

MagicIdle == /\ mpath = <<>>
             /\ para = <<>>
             /\ mpc = "idle"
             /\ mres = <<>>

Init ==
  /\ paths \in SeqsUpTo(PathSet, MaxPaths)
  /\ page_size \in (0 - MaxPageSize)..MaxPageSize
  /\ LET used == {discover_repository(p) : p \in Range(paths)}
     IN repo_at \in {[r \in Roots |-> IF r \in used THEN f[r] ELSE NoRepo] :
                       f \in [used -> RepoStates]}
  /\ pc = "paths"
  /\ err = ""
  /\ k = 1
  /\ links = <<Link("/", "")>>
  /\ repos = <<>>
  /\ all_posts = <<>>
  /\ renders = <<>>
  /\ perma = <<>>
  /\ MagicIdle

(* One iteration of `for path in paths` when find_posts returns. *)
FindPosts ==
  /\ pc = "paths"
  /\ k <= Len(paths)
  /\ RepoOf(paths[k]).kind = "ok"
  /\ LET path == paths[k]
         posts == find_posts(path, RepoOf(path))
         name == RepoName(path)
     IN /\ repos' = DictSet(repos, name, posts)
        /\ all_posts' = all_posts \o posts
        /\ links' = Append(links, Link("/" \o name, name \o ".html"))
  /\ k' = k + 1
  /\ UNCHANGED <<paths, page_size, repo_at, pc, err, renders, perma, magicvars>>

(* find_posts raises: nothing in render_all catches it. *)
FindPostsRaise ==
  /\ pc = "paths"
  /\ k <= Len(paths)
  /\ RepoOf(paths[k]).kind # "ok"
  /\ pc' = "raised"
  /\ err' = RepoOf(paths[k]).kind
  /\ UNCHANGED <<paths, page_size, repo_at, k, links, repos, all_posts,
                 renders, perma, magicvars>>

(* all_posts.sort(...) and os.makedirs after the loop over the paths. *)
SortAllPosts ==
  /\ pc = "paths"
  /\ k > Len(paths)
  /\ all_posts' = SortByTimeDesc(all_posts)
  /\ pc' = "repos"
  /\ k' = 1
  /\ UNCHANGED <<paths, page_size, repo_at, err, links, repos, renders, perma,
                 magicvars>>

(* One iteration of `for name, posts in repos.items()`. *)
RenderRepo ==
  /\ pc = "repos"
  /\ k <= Len(repos)
  /\ page_size # 0
  /\ LET name == repos[k].name
     IN renders' = Append(renders,
                     render_pages(repos[k].posts, page_size,
                       [i \in PageIndexes(repos[k].posts) |-> RepoFilename(name, i)],
                       [i \in PageIndexes(repos[k].posts) |-> RepoHref(name, i)],
                       [i \in PageIndexes(repos[k].posts) |-> RepoTitle(name, i)]))
  /\ k' = k + 1
  /\ UNCHANGED <<paths, page_size, repo_at, pc, err, links, repos, all_posts,
                 perma, magicvars>>

(* render_pages(all_posts, ...) for the combined feed. *)
RenderCombined ==
  /\ pc = "repos"
  /\ k > Len(repos)
  /\ page_size # 0
  /\ renders' = Append(renders,
                  render_pages(all_posts, page_size,
                    [i \in PageIndexes(all_posts) |-> IndexFilename(i)],
                    [i \in PageIndexes(all_posts) |-> IndexHref(i)],
                    [i \in PageIndexes(all_posts) |-> IndexTitle(i)]))
  /\ pc' = "permalinks"
  /\ UNCHANGED <<paths, page_size, repo_at, err, k, links, repos, all_posts,
                 perma, magicvars>>

(* The first call of render_pages divides by page_size before it writes. *)
RenderPagesRaise ==
  /\ pc = "repos"
  /\ page_size = 0
  /\ pc' = "raised"
  /\ err' = "ZeroDivisionError"
  /\ UNCHANGED <<paths, page_size, repo_at, k, links, repos, all_posts,
                 renders, perma, magicvars>>

(* `for post in all_posts`: one permalink document per post. *)
Permalinks ==
  /\ pc = "permalinks"
  /\ perma' = [i \in 1..Len(all_posts) |-> PermalinkDoc(all_posts[i])]
  /\ pc' = "done"
  /\ UNCHANGED <<paths, page_size, repo_at, err, k, links, repos, all_posts,
                 renders, magicvars>>

Next ==
  \/ FindPosts
  \/ FindPostsRaise
  \/ SortAllPosts
  \/ RenderRepo
  \/ RenderCombined
  \/ RenderPagesRaise
  \/ Permalinks

Spec == Init /\ [][Next]_vars

(* Every write_template call of the run, in the order it was made. *)
Written == Concat([r \in 1..Len(renders) |-> renders[r].docs]) \o perma

----------------------------------------------------------------------------
(* magic on paragraphs; a string is a sequence of one-character strings.   *)

IsSpace(c) == c \in {" ", "\n", "\t"}

startswith(s, pre) == Len(s) >= Len(pre) /\ SubSeq(s, 1, Len(pre)) = pre

RECURSIVE lstrip(_)
lstrip(s) == IF s # <<>> /\ IsSpace(Head(s)) THEN lstrip(Tail(s)) ELSE s

RECURSIVE rstrip(_)
rstrip(s) ==
  IF s # <<>> /\ IsSpace(Last(s)) THEN rstrip(SubSeq(s, 1, Len(s) - 1)) ELSE s

strip(s) == rstrip(lstrip(s))

(* The length of the first token of a string without leading whitespace. *)
RECURSIVE TokenLen(_)
TokenLen(s) == IF s = <<>> \/ IsSpace(Head(s)) THEN 0 ELSE 1 + TokenLen(Tail(s))

(* str.split(maxsplit=1): leading whitespace is dropped, the first token   *)
(* ends at the first whitespace run, and what follows that run is the      *)
(* second item, present only when it is not empty.                         *)
split1(s) ==
  LET t == lstrip(s)
      n == TokenLen(t)
      rest == lstrip(SubSeq(t, n + 1, Len(t)))
  IN IF t = <<>> THEN <<>>
     ELSE IF rest = <<>> THEN <<SubSeq(t, 1, n)>>
     ELSE <<SubSeq(t, 1, n), rest>>

MagicCwd == <<"/", "w">>

(* os.path.join of two strings, and os.path.abspath of the result for the  *)
(* strings of the model, which hold no "." segment and no doubled slash.   *)
join(a, b) ==
  IF startswith(b, <<"/">>) THEN b
  ELSE IF a = <<>> \/ Last(a) = "/" THEN a \o b
  ELSE a \o <<"/">> \o b

abspathStr(s) == IF startswith(s, <<"/">>) THEN s ELSE join(MagicCwd, s)

Code(path, real_path, is_markdown) ==
  [path |-> path, real_path |-> real_path, is_markdown |-> is_markdown]

FilePrefix == <<"!", "f", "i", "l", "e">>

CodePrefix == <<"!", "c", "o", "d", "e">>

MdPrefix == <<"!", "m", "d">>

(* The branch of magic a paragraph takes: 1 (!file / !code), 2 (!md) or 0. *)
MagicBranch(s) ==
  IF startswith(s, FilePrefix) \/ startswith(s, CodePrefix) THEN 1
  ELSE IF startswith(s, MdPrefix) THEN 2
  ELSE 0

(* para.split(maxsplit=1)[1] raises IndexError when there is no item 1. *)
MagicRaises(s) == MagicBranch(s) # 0 /\ Len(split1(s)) < 2

MagicResult(path, s) ==
  IF MagicBranch(s) = 0 THEN [kind |-> "text", text |-> s]
  ELSE LET file == strip(split1(s)[2])
       IN [kind |-> "Code",
           code |-> Code(file, abspathStr(join(path, file)), MagicBranch(s) = 2)]

(* The inputs of magic: a first token, a gap and a remainder. *)
MagicPaths == {<<"/", "r">>, <<"r">>}

Tokens == {<<>>, FilePrefix, CodePrefix, MdPrefix, FilePrefix \o <<"s">>,
           MdPrefix \o <<"x">>, <<"!", "f", "i", "l">>, <<"t">>}

Gaps == {<<>>, <<" ">>, <<" ", " ">>, <<"\n">>}

Rests == {<<>>, <<"p">>, <<"p", " ">>, <<"p", " ", "q">>, <<"/", "p">>}

Paragraphs == {t \o g \o r : t \in Tokens, g \in Gaps, r \in Rests}

RunIdle == /\ paths = <<>>
           /\ page_size = 1
           /\ repo_at = [r \in Roots |-> NoRepo]
           /\ pc = "idle"
           /\ err = ""
           /\ k = 1
           /\ links = <<>>
           /\ repos = <<>>
           /\ all_posts = <<>>
           /\ renders = <<>>
           /\ perma = <<>>

InitMagic ==
  /\ RunIdle
  /\ mpath \in MagicPaths
  /\ para \in Paragraphs
  /\ mpc = "call"
  /\ mres = <<>>

MagicReturn ==
  /\ mpc = "call"
  /\ ~MagicRaises(para)
  /\ mres' = MagicResult(mpath, para)
  /\ mpc' = "returned"
  /\ UNCHANGED <<mpath, para, runvars>>

MagicRaise ==
  /\ mpc = "call"
  /\ MagicRaises(para)
  /\ mres' = [kind |-> "IndexError"]
  /\ mpc' = "raised"
  /\ UNCHANGED <<mpath, para, runvars>>

NextMagic == MagicReturn \/ MagicRaise

SpecMagic == InitMagic /\ [][NextMagic]_vars

----------------------------------------------------------------------------
(* Definitions shared by the properties.                                   *)

(* The posts find_posts returns for the i-th configured path. *)
PathPosts(ps, i) == find_posts(ps[i], RepoOf(ps[i]))

(* The combined feed render_all builds for a list of paths that all        *)
(* resolve: extend in configuration order, then sort.                      *)
Extracted(ps) == Concat([i \in 1..Len(ps) |-> PathPosts(ps, i)])

CombinedFeed(ps) == SortByTimeDesc(Extracted(ps))

AllPaths == {paths[i] : i \in 1..Len(paths)}

AllResolve == \A i \in 1..Len(paths) : RepoOf(paths[i]).kind = "ok"

(* all_posts has been sorted. *)
Sorted == \/ pc \in {"repos", "permalinks", "done"}
          \/ pc = "raised" /\ err = "ZeroDivisionError"

IsPermutationOf(q, ps) ==
  /\ Len(q) = Len(ps)
  /\ \A x \in Range(ps) \cup Range(q) : Count(q, x) = Count(ps, x)

PagePosts(r) == [j \in 1..Len(r.docs) |-> r.docs[j].posts]

CeilDiv(n, S) == (n + S - 1) \div S

FirstToken(s) == SubSeq(s, 1, TokenLen(s))

----------------------------------------------------------------------------
(* C1: for a positive page size, the pages written by every render_pages   *)
(* call hold together as many posts as the feed, every page but the last   *)
(* holds exactly page_size posts, and the pages concatenated in order are  *)
(* the feed itself.                                                        *)
C1_PagesPartitionPosts ==
  page_size > 0 =>
    \A r \in 1..Len(renders) :
      LET pgs == PagePosts(renders[r])
      IN /\ Len(Concat(pgs)) = Len(renders[r].posts)
         /\ \A j \in 1..(Len(pgs) - 1) : Len(pgs[j]) = page_size
         /\ Concat(pgs) = renders[r].posts

C1_Witness ==
  /\ page_size = 2
  /\ \E r \in 1..Len(renders) :
       /\ Len(renders[r].posts) = 3
       /\ Len(renders[r].docs) = 2
       /\ Len(renders[r].docs[2].posts) = 1

(* C2: for a positive page size the number of page documents of a feed of  *)
(* n posts is ceil(n / page_size), one for n = 0, and the last page is not *)
(* empty when n > 0.                                                       *)
C2_PageCountIsCeil ==
  page_size > 0 =>
    \A r \in 1..Len(renders) :
      LET n == Len(renders[r].posts)
          docs == renders[r].docs
      IN /\ Len(docs) = IF n = 0 THEN 1 ELSE CeilDiv(n, page_size)
         /\ n > 0 => Last(docs).posts # <<>>

(* C3: for a positive page size the page-link list of a feed has one Link  *)
(* per rendered page, and the current_page of the j-th page is the href of *)
(* the j-th Link and of no other Link.                                     *)
C3_OneLinkPerPage ==
  page_size > 0 =>
    \A r \in 1..Len(renders) :
      LET pages == renders[r].pages
          docs == renders[r].docs
      IN /\ Len(pages) = Len(docs)
         /\ \A j \in 1..Len(docs) :
              /\ j <= Len(pages)
              /\ docs[j].current_page = pages[j].href
              /\ Cardinality({i \in 1..Len(pages) :
                                pages[i].href = docs[j].current_page}) = 1

(* C4: when find_posts fails for a configured path and the page size is    *)
(* positive, the run still completes and has written the first page of     *)
(* every other path's feed, the combined feed and the permalink of every   *)
(* post of the other paths.                                                *)
C4_FailedPathIsSkipped ==
  (Terminated /\ page_size > 0 /\ ~AllResolve) =>
    /\ pc = "done"
    /\ \A i \in 1..Len(paths) :
         RepoOf(paths[i]).kind = "ok" =>
           /\ \E d \in Range(Written) : d.filename = RepoName(paths[i]) \o ".html"
           /\ \A post \in Range(PathPosts(paths, i)) :
                \E d \in Range(perma) : d.filename = post.hash \o ".html"
    /\ \E d \in Range(Written) : d.filename = "index.html"

(* C5: once sorted, the combined feed holds every post of every configured *)
(* path as many times as it was extracted, and no post comes before a post *)
(* with a larger time.                                                     *)
C5_CombinedSortedPermutation ==
  Sorted =>
    /\ Len(all_posts) = Len(Extracted(paths))
    /\ \A x \in Range(all_posts) \cup Range(Extracted(paths)) :
         Count(all_posts, x) = Count(Extracted(paths), x)
    /\ \A i, j \in 1..Len(all_posts) :
         i < j => all_posts[i].time >= all_posts[j].time

C5_Witness ==
  /\ Sorted
  /\ Len(paths) = 2
  /\ Len(all_posts) >= 3
  /\ all_posts # Extracted(paths)
  /\ \E i, j \in 1..Len(all_posts) : all_posts[i].time > all_posts[j].time

(* C6: posts of the combined feed with the same time are ordered by commit *)
(* identifier, and configuring the same paths in another order gives the   *)
(* same combined feed.                                                     *)
C6_OrderIndependentOfPathOrder ==
  Sorted =>
    /\ \/ \A i, j \in 1..Len(all_posts) :
            (i < j /\ all_posts[i].time = all_posts[j].time)
              => HashNo(all_posts[i].hash) <= HashNo(all_posts[j].hash)
       \/ \A i, j \in 1..Len(all_posts) :
            (i < j /\ all_posts[i].time = all_posts[j].time)
              => HashNo(all_posts[i].hash) >= HashNo(all_posts[j].hash)
    /\ \A q \in [1..Len(paths) -> AllPaths] :
         IsPermutationOf(q, paths) => CombinedFeed(q) = all_posts

(* C7: with a page size of zero or less the run fails in render_pages and  *)
(* no page document is written for any feed.                               *)
C7_NonPositivePageSizeIsFatal ==
  page_size <= 0 => (renders = <<>> /\ pc \notin {"permalinks", "done"})

(* C8: magic never fails; it returns a Directive exactly when the first    *)
(* token of the paragraph is !file, !code (is_markdown false) or !md       *)
(* (is_markdown true), and the paragraph unchanged otherwise.              *)
C8_MagicIsTotal ==
  mpc \in {"returned", "raised"} =>
    /\ mpc = "returned"
    /\ mres.kind = "Code" <=> FirstToken(para) \in {FilePrefix, CodePrefix, MdPrefix}
    /\ mres.kind = "Code" => (mres.code.is_markdown <=> FirstToken(para) = MdPrefix)
    /\ mres.kind = "text" => mres.text = para

(* C9: when several configured paths have the same display name, the       *)
(* mapping has one entry for the name, holding the posts of the last such  *)
(* path; once the run is done the feed rendered for the name holds those   *)
(* posts only, and every post of every such path is in the combined feed   *)
(* and has a permalink document.                                           *)
SameName(i, j) == i < j /\ RepoName(paths[i]) = RepoName(paths[j])

LastWithName(name) ==
  CHOOSE i \in 1..Len(paths) :
    /\ RepoName(paths[i]) = name
    /\ \A j \in 1..Len(paths) : RepoName(paths[j]) = name => j <= i

C9_LastPathWinsMapping ==
  (pc \in {"repos", "permalinks", "done"}) =>
    \A i, j \in 1..Len(paths) :
      SameName(i, j) =>
        LET name == RepoName(paths[i])
            winner == PathPosts(paths, LastWithName(name))
            at == {r \in 1..Len(repos) : repos[r].name = name}
        IN /\ Cardinality(at) = 1
           /\ \A r \in at : repos[r].posts = winner
           /\ pc = "done" =>
                /\ \A r \in at :
                     /\ renders[r].posts = winner
                     /\ renders[r].docs[1].filename = name \o ".html"
                     /\ \A d \in Range(renders[r].docs) :
                          Range(d.posts) \subseteq Range(winner)
                /\ \A post \in Range(PathPosts(paths, i)) \cup Range(PathPosts(paths, j)) :
                     /\ post \in Range(all_posts)
                     /\ post \in Range(Last(renders).posts)
                     /\ \E d \in Range(perma) :
                          d.filename = post.hash \o ".html" /\ d.posts = <<post>>

C9_Witness ==
  /\ pc = "done"
  /\ page_size > 0
  /\ Len(paths) = 2
  /\ paths[1] # paths[2]
  /\ SameName(1, 2)
  /\ Range(PathPosts(paths, 1)) \cap Range(PathPosts(paths, 2)) = {}
  /\ repos = <<[name |-> RepoName(paths[2]), posts |-> PathPosts(paths, 2)]>>
  /\ Len(perma) = Len(PathPosts(paths, 1)) + Len(PathPosts(paths, 2))

(* C10: with a positive page size, no two documents written in one run    *)
(* have the same filename.                                                 *)
C10_NoDocumentOverwritten ==
  page_size > 0 =>
    \A i, j \in 1..Len(Written) :
      i # j => Written[i].filename # Written[j].filename

====
